---- MODULE Spec2Model ----
(***************************************************************************)
(* Backup / resume workflow of reportio: ReportTemplate                    *)
(* (src/templates/__init__.py) and SimpleReport (src/templates/simple.py). *)
(*                                                                         *)
(* File names are sequences of tokens.  A token is either one of the       *)
(* separator characters "." and "_" or an atom, a non-empty run of other   *)
(* characters.  str.split is computed on these sequences the way Python    *)
(* computes it on characters.                                              *)
(***************************************************************************)
EXTENDS Integers, Sequences, FiniteSets, TLC

\* ---------------------------------------------------------------- bounds
MaxDay == 1          \* calendar days 0..MaxDay
MaxQueries == 2      \* longest Query Descriptor list
MaxFiles == 2        \* longest self._files list
MaxReports == 2      \* report objects constructed, one after the other

\* ------------------------------------------------------- string helpers
Last(s) == s[Len(s)]

\* Does sep occur in s at position i?
MatchAt(s, sep, i) ==
    /\ i + Len(sep) - 1 <= Len(s)
    /\ \A j \in 1..Len(sep) : s[i + j - 1] = sep[j]

\* str.split(sep): left-to-right, non-overlapping occurrences of sep.
RECURSIVE SplitFrom(_, _, _, _)
SplitFrom(s, sep, i, cur) ==
    IF i > Len(s) THEN <<cur>>
    ELSE IF MatchAt(s, sep, i)
         THEN <<cur>> \o SplitFrom(s, sep, i + Len(sep), <<>>)
         ELSE SplitFrom(s, sep, i + 1, Append(cur, s[i]))

Split(s, sep) == SplitFrom(s, sep, 1, <<>>)

Dot == <<".">>
DunderSep == <<"_", "_">>

\* name.split('.')[-1]
Extension(name) == Last(Split(name, Dot))

\* An arbitrary but fixed enumeration of a finite set (os.listdir order).
RECURSIVE SetToSeq(_)
SetToSeq(S) ==
    IF S = {} THEN <<>>
    ELSE LET x == CHOOSE y \in S : TRUE IN <<x>> \o SetToSeq(S \ {x})

Range(s) == {s[i] : i \in 1..Len(s)}

\* ------------------------------------------------------------ constants
MarkerName == <<"startDate", ".", "txt">>
MetadataFileName == <<"Metadata", ".", "xlsx">>
\* "__" + self.metadata_file_name
MetadataBackupName == DunderSep \o MetadataFileName
ForeignFile == <<"notes", ".", "csv">>

GzExt == <<"gz">>
TxtExt == <<"txt">>
XlsxExt == <<"xlsx">>

\* date.isoformat(): one string per calendar day
DayOfMonth == <<"01", "02", "03", "04", "05", "06", "07", "08", "09">>
IsoFormat(d) == <<"2021", "-", "01", "-", DayOfMonth[d + 1]>>

\* The query names a report may register, in registration order.
QueryNameSeq == <<<<"a">>, <<"b">>, <<"c">>, <<"d">>>>

\* Prefixes NamedTemporaryFile can draw: "tmp" followed by characters of
\* [a-z0-9_]; the last character may be an underscore.
Prefixes == {<<"tmpk3x">>, <<"tmpk3", "_">>}
PlainPrefixes == {p \in Prefixes : \A i \in 1..Len(p) : p[i] # "_"}

Days == 0..MaxDay

\* Query Descriptor lists: up to MaxQueries distinct query names.
QueryLists == {SubSeq(QueryNameSeq, 1, n) : n \in 0..MaxQueries}
QueryNames == Range(QueryNameSeq)

\* self.config['REPORT']['export_to']
ReportLocation == <<"report", ".", "xlsx">>

\* default_config_location, and a location of the caller's
DefaultConfigLocation == "config.txt"
CustomConfigLocation == "my_config.txt"

\* ------------------------------------------------------------ directories
\* A directory is a function from file names to file contents.
EmptyDir == [n \in {} |-> <<>>]
Put(dir, name, content) ==
    [n \in (DOMAIN dir) \cup {name} |-> IF n = name THEN content ELSE dir[n]]
Remove(dir, name) == [n \in (DOMAIN dir) \ {name} |-> dir[n]]
IsFile(dir, name) == name \in DOMAIN dir
ListDir(dir) == SetToSeq(DOMAIN dir)

\* ---------------------------------------------------------------- state
VARIABLES
    today,        \* the calendar day, date.today()
    backupDir,    \* contents of self.backup_folder_location
    tempDir,      \* contents of self.temp_files_location
    pc,           \* where the report object is
    exc,          \* the exception that left the object, "none" if none
    start_date,   \* self.start_date
    _files,       \* self._files: the temp-file handles
    metadata,     \* self.metadata['query_name'] (= self.query_list)
    multithread,  \* the flag of the current run()
    fetched,      \* rows of the current run whose get_data has returned
    exported,     \* number of rows of the current run that are exported
    bk_i,         \* backup_data: index of the loop over self._files
    bk_hook,      \* backup_data: optional_function
    bk_caller,    \* backup_data: "run" (failure handler) or "user"
    reports,      \* number of report objects constructed so far
    \* ---- history variables
    events,       \* what the call in progress, or the last one, did so far
    uncommitted,  \* backup names written by a call that wrote no marker
    stored_today, \* query names stored by a completed backup_data today
    expect_skip,  \* stored_today when this report object was constructed
    \* ---- the connection registry
    connection_dictionary, \* self.connection_dictionary: name -> handle
    cn,           \* the get_connection call in progress, if any
    \* ---- the output files
    workbook,     \* sheet titles of the .xlsx at report_location, <<>> if absent
    csv_files,    \* the other files of the export folder (CSV exports)
    \* ---- the get_data call in progress
    gd,           \* [pc, name, db_type] of that call
    \* ---- the configuration
    config_files, \* the configuration files that exist
    export_to,     \* self.config['REPORT']['export_to']
    \* ---- the Data objects
    data_objects,  \* the Data object of each dataset name
    \* ---- the worker threads of a multithreaded run
    threads,       \* the get_connection call of each worker thread
    \* ---- the task graph run() computes
    graph \* the computation of the task graph of the run in progress

vars == <<today, backupDir, tempDir, pc, exc, start_date, _files,
          metadata, multithread, fetched, exported, bk_i, bk_hook, bk_caller,
          reports, events, uncommitted,
          stored_today, expect_skip, connection_dictionary, cn,
          workbook, csv_files,
          gd,
          config_files, export_to,
          data_objects,
          threads,
          graph>>

\* The connection registry and the call of get_connection in progress.
connVars == <<connection_dictionary, cn>>

\* The files a report leaves at report_location.
exportVars == <<workbook, csv_files>>

\* The get_data call in progress.
getDataVars == <<gd>>

\* The configuration.
configVars == <<config_files, export_to>>

\* The Data objects.
dataVars == <<data_objects>>

\* The worker threads of a multithreaded run.
threadVars == <<threads>>

\* The task graph run() computes.
graphVars == <<graph>>

\* ------------------------------------------------------------------ hooks
NoHook == "None"
Callable(h) == h # NoHook

IsDataset(f) == Extension(f) = GzExt

\* Variant: a sweep that knows datasets only and forgets the marker.
IsDatasetOnly(f) == Extension(f) = GzExt

\* templates/__init__.py:272  file_location.split('.')[-1] in ['gz', 'txt']
IsDatasetOrMarker(f) == Extension(f) \in {GzExt, TxtExt}

\* simple.py _delete_excel_files(file_location)
DeleteExcelFiles(dir, f) ==
    IF Extension(f) = XlsxExt THEN Remove(dir, f) ELSE dir

\* The loop of delete_data_backup over the listing taken before the loop.
RECURSIVE DeleteLoop(_, _, _, _)
DeleteLoop(dir, listing, i, hook) ==
    IF i > Len(listing) THEN [dir |-> dir, events |-> <<>>]
    ELSE LET f == listing[i]
             d1 == IF Callable(hook) THEN DeleteExcelFiles(dir, f) ELSE dir
             d2 == IF IsDatasetOrMarker(f) THEN Remove(d1, f) ELSE d1
             rest == DeleteLoop(d2, listing, i + 1, hook)
         IN [dir |-> rest.dir,
             events |-> (IF Callable(hook) THEN <<<<"hook", f>>>> ELSE <<>>)
                        \o (IF IsDatasetOrMarker(f) THEN <<<<"remove", f>>>>
                                                    ELSE <<>>)
                        \o rest.events]

\* ReportTemplate.delete_data_backup(optional_function)
DeleteDataBackup(dir, hook) == DeleteLoop(dir, ListDir(dir), 1, hook)

\* simple.py _restore_metadata(): reads <backup>/Metadata.xlsx, and purges
\* the backup directory through _delete_data_backup when it is not there.
RestoreMetadata(dir, md) ==
    IF IsFile(dir, MetadataFileName)
    THEN [dir |-> dir, metadata |-> dir[MetadataFileName], events |-> <<>>]
    ELSE LET d == DeleteDataBackup(dir, "_delete_excel_files")
         IN [dir |-> d.dir, metadata |-> md, events |-> d.events]

\* Variant: a date test that accepts the marker of any day.
MarkerOfAnyDay(content, day) == TRUE

\* The date test of attempt_resume.
MarkerIsToday(content, day) == content = IsoFormat(day)

\* Variant: a resume list that keeps every name of the listing.
ResumeEverything(listing) == listing

\* The names attempt_resume gathers from the listing.
ResumeList(listing) == SelectSeq(listing, IsDataset)

\* ReportTemplate.attempt_resume(optional_function_1, optional_function_2)
AttemptResume(dir, day, md, h1, h2) ==
    LET listing == ListDir(dir) IN
    IF MarkerName \in Range(listing)
    THEN IF MarkerIsToday(dir[MarkerName], day)
         THEN LET r == IF Callable(h1) THEN RestoreMetadata(dir, md)
                       ELSE [dir |-> dir, metadata |-> md, events |-> <<>>]
              IN [file_list |-> ResumeList(listing), dir |-> r.dir,
                  metadata |-> r.metadata, events |-> r.events]
         ELSE LET d == DeleteDataBackup(dir, h2)
              IN [file_list |-> <<>>, dir |-> d.dir, metadata |-> md,
                  events |-> d.events]
    ELSE [file_list |-> <<>>, dir |-> dir, metadata |-> md, events |-> <<>>]

\* get_temp_file: NamedTemporaryFile(suffix="__" + file_name + '.gz')
TempName(prefix, name) == prefix \o DunderSep \o name \o <<".", "gz">>

\* get_data: data_name + '.gz'
BackupFileName(name) == name \o <<".", "gz">>

\* backup_data: file.name.split('__')[-1]
BackupDestination(fname) == Last(Split(fname, DunderSep))

\* backup_data: the text written to startDate.txt
MarkerText(startDate, day) == startDate

\* The result set of a query.
Rows(name) == <<"rows">> \o name

HandleNames == {_files[i].name : i \in 1..Len(_files)}

\* History: the copies the current backup_data call has made so far.
CopyEvents == {e \in Range(events) : e[1] = "copy"}
WrittenNames == {e[3] : e \in CopyEvents}
StoredQueries == {e[2] : e \in CopyEvents}


\* ------------------------------------------------------------------- Init
\* No report object exists yet.
\* The dataset names Data objects are made for.
DataNames == {QueryNameSeq[i] : i \in 1..MaxQueries}

\* No Data object of that name yet.
NoData == [state |-> "none", connection |-> "none", backup |-> FALSE,
           _DataFrame |-> "None", task |-> "none", callback |-> "none",
           calls |-> 0]

\* No task graph is being computed.
NoGraph == [scheduler |-> "none", state |-> <<>>, lingering |-> {}]

\* The worker threads of the scheduler.
MaxThreads == 2
Threads == 1..MaxThreads

\* A worker thread that is not inside get_connection.
NoThreadCall == [pc |-> "idle", name |-> "", string |-> <<>>, i |-> 0,
                 handle |-> <<>>]

\* No get_data call is in progress.
NoGetData == [pc |-> "idle", name |-> <<>>, db_type |-> ""]

NoReport ==
    /\ tempDir = EmptyDir
    /\ pc = "none"
    /\ exc = "none"
    /\ start_date = <<>>
    /\ _files = <<>>
    /\ metadata = <<>>
    /\ multithread = FALSE
    /\ fetched = {}
    /\ exported = 0
    /\ bk_i = 0
    /\ bk_hook = NoHook
    /\ bk_caller = "user"
    /\ reports = 0
    /\ events = <<>>
    /\ uncommitted = {}
    /\ stored_today = {}
    /\ expect_skip = {}
    /\ connection_dictionary = [n \in {} |-> <<>>]
    /\ cn = [pc |-> "idle", name |-> "", string |-> <<>>, i |-> 0]
    /\ gd = NoGetData
    /\ data_objects = [n \in DataNames |-> NoData]
    /\ threads = [t \in Threads |-> NoThreadCall]
    /\ graph = NoGraph

\* The files of an installation nothing has run on: the configuration at
\* its default location with the default export path, no output there.
Installed ==
    /\ config_files = {DefaultConfigLocation}
    /\ export_to = ReportLocation
    /\ workbook = <<>>
    /\ csv_files = {}

\* A backup directory that holds nothing of this library yet.
CleanDir == Put(EmptyDir, ForeignFile, <<"text">>)

Init ==
    /\ today = 0
    /\ backupDir = CleanDir
    /\ NoReport
    /\ Installed

\* The backup directories earlier runs can have left behind: any of the
\* dataset names backup_data writes, the marker of any day, the metadata
\* workbook, beside the foreign file.
DatasetNames ==
    UNION {{BackupFileName(QueryNameSeq[i]),
            <<"_">> \o BackupFileName(QueryNameSeq[i])} : i \in 1..MaxQueries}

DirOf(gz, meta) ==
    [n \in {ForeignFile} \cup gz \cup meta |->
        IF n = ForeignFile THEN <<"text">>
        ELSE IF n = MetadataBackupName THEN SubSeq(QueryNameSeq, 1, MaxQueries)
        ELSE Rows(Last(Split(SubSeq(n, 1, Len(n) - 2), <<"_">>)))]

LeftBehindDirs ==
    {DirOf(gz, meta) :
        gz \in SUBSET DatasetNames, meta \in SUBSET {MetadataBackupName}}
    \cup {Put(DirOf(gz, meta), MarkerName, IsoFormat(d)) :
            gz \in SUBSET DatasetNames, meta \in SUBSET {MetadataBackupName},
            d \in Days}

InitLeftBehind ==
    /\ today \in Days
    /\ backupDir \in LeftBehindDirs
    /\ NoReport
    /\ Installed

\* ---------------------------------------------------------------- actions
\* Locals of run() and of backup_data() that are out of scope.
NoRun == multithread' = FALSE /\ fetched' = {} /\ exported' = 0
NoBackup == bk_i' = 0 /\ bk_hook' = NoHook /\ bk_caller' = "user"

\* Midnight passes, between two operations.
DayTick ==
    /\ today < MaxDay
    /\ pc \in {"none", "idle"}
    /\ today' = today + 1
    /\ stored_today' = {}
    /\ events' = <<>>
    /\ UNCHANGED <<backupDir, tempDir, pc, exc, start_date, _files, metadata,
                   multithread, fetched, exported, bk_i, bk_hook, bk_caller,
                   uncommitted, expect_skip>>
    /\ UNCHANGED connVars
    /\ UNCHANGED graphVars
    /\ UNCHANGED threadVars
    /\ UNCHANGED dataVars
    /\ UNCHANGED configVars
    /\ UNCHANGED getDataVars
    /\ UNCHANGED exportVars

\* write_config(config_location, report_name): a missing file is copied
\* from default_config_location; any exception becomes ConfigError.
WriteConfig(files, location) ==
    IF location \in files
    THEN [ok |-> TRUE, files |-> files, created |-> FALSE]
    ELSE IF DefaultConfigLocation \in files
    THEN [ok |-> TRUE, files |-> files \cup {location}, created |-> TRUE]
    ELSE [ok |-> FALSE, files |-> files, created |-> FALSE]

\* report_location.split('.')[0] in file_name
Contains(s, sub) == \E i \in 1..Len(s) : MatchAt(s, sub, i)

\* "Delete old report if it exists": the file at report_location when
\* there is one, else every file of its folder whose path contains
\* report_location.split('.')[0].
RemoveOldReport(book, files, location) ==
    IF book # <<>>
    THEN [workbook |-> <<>>, csv_files |-> files]
    ELSE [workbook |-> <<>>,
          csv_files |-> {f \in files :
                            ~Contains(f, Split(location, Dot)[1])}]

\* SimpleReport(report_name, metadata=md): ReportTemplate.__init__ sets
\* start_date and _files, runs _define_optional_functions and ends with
\* self.files = self.attempt_resume(), recorded as the "return" event.
ConstructAt(md, location) ==
    /\ pc = "none"
    /\ IF ~WriteConfig(config_files, location).ok
       THEN /\ events' = <<<<"raise", "ConfigError">>>>
            /\ UNCHANGED <<backupDir, metadata, uncommitted, start_date,
                           _files, pc, expect_skip, config_files, workbook,
                           csv_files>>
       ELSE LET r == AttemptResume(backupDir, today, md, NoHook, NoHook)
                o == RemoveOldReport(workbook, csv_files, export_to) IN
            /\ config_files' = WriteConfig(config_files, location).files
            /\ workbook' = o.workbook
            /\ csv_files' = o.csv_files
            /\ backupDir' = r.dir
            /\ metadata' = r.metadata
            /\ uncommitted' = uncommitted \cap DOMAIN r.dir
            /\ events' = <<<<"return", r.file_list>>>> \o r.events
            /\ start_date' = IsoFormat(today)
            /\ _files' = <<>>
            /\ pc' = "idle"
            /\ expect_skip' = stored_today
    /\ UNCHANGED <<today, tempDir, exc, multithread, fetched, exported, bk_i,
                   bk_hook, bk_caller, stored_today, export_to>>
    /\ UNCHANGED connVars
    /\ UNCHANGED graphVars
    /\ UNCHANGED threadVars
    /\ UNCHANGED dataVars
    /\ UNCHANGED getDataVars

\* A report constructed with the configuration at its default location.
Construct(md) == ConstructAt(md, DefaultConfigLocation)

\* A call of delete_data_backup(hook) on the constructed report.
DeleteDataBackupCall(hook) ==
    /\ pc = "idle"
    /\ LET d == DeleteDataBackup(backupDir, hook) IN
        /\ backupDir' = d.dir
        /\ uncommitted' = uncommitted \cap DOMAIN d.dir
        /\ events' = <<<<"delete_data_backup", hook>>>> \o d.events
    /\ stored_today' = {}
    /\ expect_skip' = {}
    /\ UNCHANGED <<reports, today, tempDir, pc, exc, start_date, _files, metadata, multithread, fetched, exported, bk_i, bk_hook,
                   bk_caller>>
    /\ UNCHANGED connVars
    /\ UNCHANGED graphVars
    /\ UNCHANGED threadVars
    /\ UNCHANGED dataVars
    /\ UNCHANGED configVars
    /\ UNCHANGED getDataVars
    /\ UNCHANGED exportVars

\* A call of attempt_resume(h1, h2) on the constructed report: without
\* hooks, or with SimpleReport's _restore_metadata and _delete_excel_files
\* as SimpleReport._attempt_resume passes them.
AttemptResumeCall(h1, h2) ==
    /\ pc = "idle"
    /\ LET r == AttemptResume(backupDir, today, metadata, h1, h2) IN
        /\ backupDir' = r.dir
        /\ metadata' = r.metadata
        /\ uncommitted' = uncommitted \cap DOMAIN r.dir
        /\ events' = <<<<"attempt_resume", h1>>, <<"return", r.file_list>>>>
                      \o r.events
        /\ stored_today' = IF r.dir = backupDir THEN stored_today ELSE {}
        /\ expect_skip' = IF r.dir = backupDir THEN expect_skip ELSE {}
    /\ UNCHANGED <<reports, today, tempDir, pc, exc, start_date, _files,
                   multithread, fetched, exported, bk_i, bk_hook, bk_caller>>
    /\ UNCHANGED connVars
    /\ UNCHANGED graphVars
    /\ UNCHANGED threadVars
    /\ UNCHANGED dataVars
    /\ UNCHANGED configVars
    /\ UNCHANGED getDataVars
    /\ UNCHANGED exportVars

\* The hook pairs attempt_resume is called with.
ResumeHooks == {<<NoHook, NoHook>>,
                <<"_restore_metadata", "_delete_excel_files">>}

\* SimpleReport.reset(): _delete_data_backup(), then __init__ again with
\* the default (empty) metadata; the old handles are dropped and the old
\* report is removed as in every construction.
Reset ==
    /\ pc = "idle"
    /\ LET d == DeleteDataBackup(backupDir, "_delete_excel_files")
           r == AttemptResume(d.dir, today, <<>>, NoHook, NoHook)
       IN
        /\ backupDir' = r.dir
        /\ metadata' = r.metadata
        /\ uncommitted' = uncommitted \cap DOMAIN r.dir
        /\ events' = <<<<"reset">>>> \o d.events
                      \o <<<<"return", r.file_list>>>> \o r.events
    /\ LET o == RemoveOldReport(workbook, csv_files, export_to) IN
        /\ workbook' = o.workbook
        /\ csv_files' = o.csv_files
    /\ start_date' = IsoFormat(today)
    /\ _files' = <<>>
    /\ tempDir' = EmptyDir
    /\ stored_today' = {}
    /\ expect_skip' = {}
    /\ UNCHANGED <<reports, today, pc, exc, multithread, fetched, exported, bk_i,
                   bk_hook, bk_caller>>
    /\ UNCHANGED connVars
    /\ UNCHANGED graphVars
    /\ UNCHANGED threadVars
    /\ UNCHANGED dataVars
    /\ UNCHANGED configVars
    /\ UNCHANGED getDataVars

\* Variant: add_query without the test for a name already present.
AddedAlways(md, name) == Append(md, name)

\* add_query: the query_name column after the call.
Added(md, name) == IF name \notin Range(md) THEN Append(md, name) ELSE md

\* SimpleReport.add_query(query_name, sql, ...): a row is appended unless
\* the name is in query_list already, and then only a warning is logged.
AddQuery(name) ==
    /\ pc = "idle"
    /\ Len(Added(metadata, name)) <= MaxQueries
    /\ metadata' = Added(metadata, name)
    /\ events' = <<<<"add_query", name>>,
                   <<"log", IF name \notin Range(metadata) THEN "DEBUG"
                                                           ELSE "WARNING">>>>
    /\ UNCHANGED <<reports, today, backupDir, tempDir, pc, exc, start_date,
                   _files, multithread, fetched, exported, bk_i, bk_hook,
                   bk_caller, uncommitted, stored_today, expect_skip>>
    /\ UNCHANGED connVars
    /\ UNCHANGED graphVars
    /\ UNCHANGED threadVars
    /\ UNCHANGED dataVars
    /\ UNCHANGED configVars
    /\ UNCHANGED getDataVars
    /\ UNCHANGED exportVars

\* SimpleReport.remove_query(query_name): the rows of that name are dropped.
RemoveQuery(name) ==
    /\ pc = "idle"
    /\ LET Keep(n) == n # name IN metadata' = SelectSeq(metadata, Keep)
    /\ events' = <<<<"remove_query", name>>>>
    /\ UNCHANGED <<reports, today, backupDir, tempDir, pc, exc, start_date,
                   _files, multithread, fetched, exported, bk_i, bk_hook,
                   bk_caller, uncommitted, stored_today, expect_skip>>
    /\ UNCHANGED connVars
    /\ UNCHANGED graphVars
    /\ UNCHANGED threadVars
    /\ UNCHANGED dataVars
    /\ UNCHANGED configVars
    /\ UNCHANGED getDataVars
    /\ UNCHANGED exportVars

\* A handle of self._files is closed: its file is deleted with it.
CloseTempFile(i) ==
    /\ pc = "idle"
    /\ i \in 1..Len(_files)
    /\ IsFile(tempDir, _files[i].name)
    /\ tempDir' = Remove(tempDir, _files[i].name)
    /\ events' = <<>>
    /\ UNCHANGED <<reports, today, backupDir, pc, exc, start_date, _files, metadata, multithread, fetched, exported, bk_i, bk_hook,
                   bk_caller, uncommitted, stored_today, expect_skip>>
    /\ UNCHANGED connVars
    /\ UNCHANGED graphVars
    /\ UNCHANGED threadVars
    /\ UNCHANGED dataVars
    /\ UNCHANGED configVars
    /\ UNCHANGED getDataVars
    /\ UNCHANGED exportVars

\* The process that holds the report ends: every handle is closed and the
\* object is gone.
Terminate ==
    /\ pc \in {"idle", "raised"}
    /\ pc' = "none"
    /\ exc' = "none"
    /\ start_date' = <<>>
    /\ _files' = <<>>
    /\ metadata' = <<>>
    /\ tempDir' = EmptyDir
    /\ NoRun
    /\ NoBackup
    /\ expect_skip' = {}
    /\ events' = <<>>
    /\ UNCHANGED <<reports, today, backupDir, uncommitted, stored_today>>
    /\ UNCHANGED connVars
    /\ UNCHANGED graphVars
    /\ UNCHANGED threadVars
    /\ UNCHANGED dataVars
    /\ UNCHANGED configVars
    /\ UNCHANGED getDataVars
    /\ UNCHANGED exportVars

\* ------------------------------------------------------------ backup_data
\* Entry of backup_data(optional_function): the loop over self._files
\* starts; with no handle the loop is over at once.
BackupBegin(hook, caller) ==
    /\ bk_i' = 1
    /\ bk_hook' = hook
    /\ bk_caller' = caller
    /\ pc' = IF Len(_files) = 0 THEN "backup_hook" ELSE "backup_copy"

\* A call of backup_data on the constructed report: the base method
\* without a hook, or SimpleReport.backup_data with _backup_metadata.
BackupDataCall(hook) ==
    /\ pc = "idle"
    /\ BackupBegin(hook, "user")
    /\ events' = <<>>
    /\ UNCHANGED <<reports, today, backupDir, tempDir, exc, start_date, _files, metadata, multithread, fetched, exported, uncommitted,
                   stored_today, expect_skip>>
    /\ UNCHANGED connVars
    /\ UNCHANGED graphVars
    /\ UNCHANGED threadVars
    /\ UNCHANGED dataVars
    /\ UNCHANGED configVars
    /\ UNCHANGED getDataVars
    /\ UNCHANGED exportVars

\* Variant: the loop over self._files goes straight to the marker.
AfterCopyToMarker ==
    IF bk_i + 1 > Len(_files) THEN "backup_marker" ELSE "backup_copy"

\* Where the loop over self._files goes after handle bk_i.
AfterCopy == IF bk_i + 1 > Len(_files) THEN "backup_hook" ELSE "backup_copy"

\* The test that guards a copy: the name ends in gz and the file exists.
CopyEligible(h) == Extension(h.name) = GzExt /\ IsFile(tempDir, h.name)

\* Handle bk_i is not a file any more (its handle was closed): no copy.
BackupSkip ==
    /\ pc = "backup_copy"
    /\ ~CopyEligible(_files[bk_i])
    /\ bk_i' = bk_i + 1
    /\ pc' = AfterCopy
    /\ events' = Append(events, <<"skip", _files[bk_i].q>>)
    /\ UNCHANGED <<reports, today, backupDir, tempDir, exc, start_date, _files, metadata, multithread, fetched, exported, bk_hook,
                   bk_caller, uncommitted, stored_today, expect_skip>>
    /\ UNCHANGED connVars
    /\ UNCHANGED graphVars
    /\ UNCHANGED threadVars
    /\ UNCHANGED dataVars
    /\ UNCHANGED configVars
    /\ UNCHANGED getDataVars
    /\ UNCHANGED exportVars

\* pd.read_parquet(file).to_parquet(destination_location) succeeds.
BackupCopyOk ==
    /\ pc = "backup_copy"
    /\ CopyEligible(_files[bk_i])
    /\ LET h == _files[bk_i]
           dest == BackupDestination(h.name)
       IN
        /\ backupDir' = Put(backupDir, dest, tempDir[h.name])
        /\ uncommitted' = uncommitted \cup {dest}
        /\ events' = Append(events, <<"copy", h.q, dest>>)
    /\ bk_i' = bk_i + 1
    /\ pc' = AfterCopy
    /\ UNCHANGED <<reports, today, tempDir, exc, start_date, _files, metadata,
                   multithread, fetched, exported, bk_hook, bk_caller,
                   stored_today, expect_skip>>
    /\ UNCHANGED connVars
    /\ UNCHANGED graphVars
    /\ UNCHANGED threadVars
    /\ UNCHANGED dataVars
    /\ UNCHANGED configVars
    /\ UNCHANGED getDataVars
    /\ UNCHANGED exportVars

\* Which failures of a copy the loop swallows: except AttributeError.
Swallowed(kind) == kind = "AttributeError"

\* The exception leaves backup_data and, through run()'s handler, run().
Raise(what) ==
    /\ pc' = "raised"
    /\ exc' = what
    /\ NoRun
    /\ bk_i' = 0
    /\ bk_hook' = NoHook
    /\ bk_caller' = bk_caller

\* The copy raises.  An AttributeError is swallowed and the loop goes on;
\* any other exception leaves backup_data.
BackupCopyFail(kind) ==
    /\ pc = "backup_copy"
    /\ CopyEligible(_files[bk_i])
    /\ events' = Append(events, <<"copy_failed", _files[bk_i].q, kind>>)
    /\ IF Swallowed(kind)
       THEN /\ bk_i' = bk_i + 1
            /\ pc' = AfterCopy
            /\ UNCHANGED <<exc, multithread, fetched, exported, bk_hook,
                           bk_caller>>
       ELSE Raise("copy")
    /\ UNCHANGED <<reports, today, backupDir, tempDir, start_date, _files, metadata, uncommitted, stored_today, expect_skip>>
    /\ UNCHANGED connVars
    /\ UNCHANGED graphVars
    /\ UNCHANGED threadVars
    /\ UNCHANGED dataVars
    /\ UNCHANGED configVars
    /\ UNCHANGED getDataVars
    /\ UNCHANGED exportVars

\* if callable(optional_function): optional_function() -- here
\* SimpleReport._backup_metadata, which writes "__Metadata.xlsx".
BackupHook(ok) ==
    /\ pc = "backup_hook"
    /\ Callable(bk_hook)
    /\ IF ok
       THEN /\ backupDir' = Put(backupDir, MetadataBackupName, metadata)
            /\ pc' = "backup_marker"
            /\ events' = Append(events, <<"hook">>)
            /\ UNCHANGED <<exc, multithread, fetched, exported, bk_i,
                           bk_hook, bk_caller>>
       ELSE /\ backupDir' = backupDir
            /\ events' = Append(events, <<"hook_failed">>)
            /\ Raise("hook")
    /\ UNCHANGED <<reports, today, tempDir, start_date, _files, metadata,
                   uncommitted, stored_today, expect_skip>>
    /\ UNCHANGED connVars
    /\ UNCHANGED graphVars
    /\ UNCHANGED threadVars
    /\ UNCHANGED dataVars
    /\ UNCHANGED configVars
    /\ UNCHANGED getDataVars
    /\ UNCHANGED exportVars

\* optional_function is None: nothing to call.
BackupNoHook ==
    /\ pc = "backup_hook"
    /\ ~Callable(bk_hook)
    /\ pc' = "backup_marker"
    /\ UNCHANGED <<reports, today, backupDir, tempDir, exc, start_date, _files, metadata, multithread, fetched, exported, bk_i, bk_hook,
                   bk_caller, events, uncommitted, stored_today, expect_skip>>
    /\ UNCHANGED connVars
    /\ UNCHANGED graphVars
    /\ UNCHANGED threadVars
    /\ UNCHANGED dataVars
    /\ UNCHANGED configVars
    /\ UNCHANGED getDataVars
    /\ UNCHANGED exportVars

\* with open(<backup>/startDate.txt, 'w') as file: file.write(...);
\* backup_data returns, to run()'s handler or to the caller.
BackupMarker ==
    /\ pc = "backup_marker"
    /\ backupDir' = Put(backupDir, MarkerName, MarkerText(start_date, today))
    /\ uncommitted' = uncommitted \ WrittenNames
    /\ stored_today' = stored_today \cup StoredQueries
    /\ pc' = IF bk_caller = "run" THEN "prompt" ELSE "idle"
    /\ events' = Append(events, <<"marker">>)
    /\ NoBackup
    /\ UNCHANGED <<reports, today, tempDir, exc, start_date, _files, metadata,
                   multithread, fetched, exported, expect_skip>>
    /\ UNCHANGED connVars
    /\ UNCHANGED graphVars
    /\ UNCHANGED threadVars
    /\ UNCHANGED dataVars
    /\ UNCHANGED configVars
    /\ UNCHANGED getDataVars
    /\ UNCHANGED exportVars

\* ------------------------------------------------------------ the exports
\* Excel's sheet limits: len(data.index) > 1048576, len(data.columns) > 16384
MaxExcelRows == 1048576
MaxExcelCols == 16384

\* The sheet pd.DataFrame().to_excel(report_location) leaves in a new file.
PlaceholderSheet == <<"Sheet1">>

\* sheet_order.get(name) of a title the workbook does not have
NoSheet == <<"None">>

\* The size check with the limits themselves sent to CSV (>= for >).
ExportTargetAtLimit(rows, cols) ==
    IF rows >= MaxExcelRows \/ cols >= MaxExcelCols THEN "csv" ELSE "xlsx"

\* if len(data.index) > 1048576 or len(data.columns) > 16384: CSV, else Excel
ExportTarget(rows, cols) ==
    IF rows > MaxExcelRows \/ cols > MaxExcelCols THEN "csv" ELSE "xlsx"

\* get_writer: a blank workbook is created when report_location is no file.
GetWriter(book) == IF book = <<>> THEN <<PlaceholderSheet>> ELSE book

\* data.to_excel(writer, sheet); writer.save(): a new title is appended, a
\* title the writer already knows has its cells overwritten in place.
ToExcel(book, sheet) ==
    IF sheet \in Range(book) THEN book ELSE Append(book, sheet)

\* report_location.split('.')[0] + "__" + sheet + '.csv'
CsvLocation(location, sheet) ==
    Split(location, Dot)[1] \o DunderSep \o sheet \o <<".", "csv">>

\* report_location.split('.')[0] + '.xlsx'
XlsxLocation(location) == Split(location, Dot)[1] \o <<".", "xlsx">>

\* ReportTemplate.export_data on a dataset of the given shape: the files
\* after the call and the location it returns.
BaseExportData(book, csvs, location, sheet, rows, cols) ==
    IF ExportTarget(rows, cols) = "csv"
    THEN [workbook  |-> book,
          csv_files |-> csvs \cup {CsvLocation(location, sheet)},
          location  |-> CsvLocation(location, sheet)]
    ELSE [workbook  |-> ToExcel(GetWriter(book), sheet),
          csv_files |-> csvs,
          location  |-> XlsxLocation(location)]

\* The shape of the dataset a query returns: one query of the pool is
\* larger than a sheet, the others fit.
OversizeQuery == <<"b">>
Shape(name) ==
    IF name = OversizeQuery THEN [rows |-> MaxExcelRows + 1, cols |-> 1]
                            ELSE [rows |-> 1, cols |-> 1]

\* [sheet_order.get(str(i)) for i in self.query_list]
SheetOrder(book, query_list) ==
    [i \in 1..Len(query_list) |->
        IF query_list[i] \in Range(book) THEN query_list[i] ELSE NoSheet]

\* _get_writer: the old report is removed when a file with the report's
\* stem exists, a blank workbook is created and the writer is opened on it.
GetWriterEvents(book) ==
    (IF book # <<>> THEN <<<<"remove_output">>>> ELSE <<>>)
        \o <<<<"create_output">>, <<"open_output">>>>

\* -------------------------------------------------------- SimpleReport.run
\* run(multithread): with an empty metadata frame EmptyReport is raised
\* inside the try block; otherwise _process_queries starts.
Run(mt) ==
    /\ pc = "idle"
    /\ Len(_files) + Len(metadata) <= MaxFiles
    /\ IF Len(metadata) > 0
       THEN pc' = "dispatch" /\ multithread' = mt
       ELSE pc' = "except" /\ multithread' = FALSE
    /\ fetched' = {}
    /\ exported' = 0
    /\ events' = GetWriterEvents(workbook)
    /\ workbook' = <<PlaceholderSheet>>
    /\ UNCHANGED <<reports, today, backupDir, tempDir, exc, start_date, _files, metadata, bk_i, bk_hook, bk_caller, uncommitted,
                   stored_today, expect_skip, csv_files>>
    /\ UNCHANGED connVars
    /\ UNCHANGED graphVars
    /\ UNCHANGED threadVars
    /\ UNCHANGED dataVars
    /\ UNCHANGED configVars
    /\ UNCHANGED getDataVars

\* The rows whose get_data task may run now: any not yet fetched row under
\* the threaded scheduler, the next row in order under the serial one.
CanFetch(k) ==
    /\ pc = "dispatch"
    /\ k \in (1..Len(metadata)) \ fetched
    /\ Len(_files) < MaxFiles
    /\ multithread \/ (k = exported + 1)

\* get_data: is there a backup file for this data_name?
HasBackup(name) == IsFile(backupDir, BackupFileName(name))

\* get_temp_file(file_name, data): a new, uniquely named temp file whose
\* handle is appended to self._files.
GetTempFile(name, data, prefix) ==
    /\ TempName(prefix, name) \notin (DOMAIN tempDir) \cup HandleNames
    /\ tempDir' = Put(tempDir, TempName(prefix, name), data)
    /\ _files' = Append(_files, [name |-> TempName(prefix, name), q |-> name])

\* get_data of row k queries the database and materialises the result.
GetDataQuery(k, prefix) ==
    /\ CanFetch(k)
    /\ ~HasBackup(metadata[k])
    /\ GetTempFile(metadata[k], Rows(metadata[k]), prefix)
    /\ fetched' = fetched \cup {k}
    /\ events' = << <<"query", metadata[k]>> >>
    /\ UNCHANGED <<reports, today, backupDir, pc, exc, start_date, metadata,
                   multithread, exported, bk_i, bk_hook, bk_caller,
                   uncommitted, stored_today, expect_skip>>
    /\ UNCHANGED connVars
    /\ UNCHANGED graphVars
    /\ UNCHANGED threadVars
    /\ UNCHANGED dataVars
    /\ UNCHANGED configVars
    /\ UNCHANGED getDataVars
    /\ UNCHANGED exportVars

\* get_data of row k finds <backup>/<name>.gz and reads it instead.
GetDataBackup(k, prefix) ==
    /\ CanFetch(k)
    /\ HasBackup(metadata[k])
    /\ GetTempFile(metadata[k], backupDir[BackupFileName(metadata[k])],
                   prefix)
    /\ fetched' = fetched \cup {k}
    /\ events' = << <<"read_backup", metadata[k]>> >>
    /\ UNCHANGED <<reports, today, backupDir, pc, exc, start_date, metadata,
                   multithread, exported, bk_i, bk_hook, bk_caller,
                   uncommitted, stored_today, expect_skip>>
    /\ UNCHANGED connVars
    /\ UNCHANGED graphVars
    /\ UNCHANGED threadVars
    /\ UNCHANGED dataVars
    /\ UNCHANGED configVars
    /\ UNCHANGED getDataVars
    /\ UNCHANGED exportVars

\* get_data of row k raises: the query fails with pandas' DatabaseError or
\* with another exception.  Under the threaded scheduler a DatabaseError
\* makes _process_queries compute the whole graph again on one thread;
\* everything else reaches run()'s handler.
GetDataFail(k, kind) ==
    /\ CanFetch(k)
    /\ ~HasBackup(metadata[k])
    /\ IF multithread /\ kind = "DatabaseError"
       THEN pc' = pc
       ELSE pc' = "except"
    /\ NoRun
    /\ events' = << <<"query", metadata[k]>> >>
    /\ UNCHANGED <<reports, today, backupDir, tempDir, exc, start_date, _files, metadata, bk_i, bk_hook, bk_caller, uncommitted,
                   stored_today, expect_skip>>
    /\ UNCHANGED connVars
    /\ UNCHANGED graphVars
    /\ UNCHANGED threadVars
    /\ UNCHANGED dataVars
    /\ UNCHANGED configVars
    /\ UNCHANGED getDataVars
    /\ UNCHANGED exportVars

\* export_data of row k: it takes the export list of row k - 1, so the
\* exports run in row order.
ExportData(k, ok) ==
    /\ pc = "dispatch"
    /\ k = exported + 1
    /\ k \in fetched
    /\ IF ok THEN /\ exported' = k
                  /\ pc' = pc
                  /\ LET r == BaseExportData(workbook, csv_files,
                                             export_to, metadata[k],
                                             Shape(metadata[k]).rows,
                                             Shape(metadata[k]).cols) IN
                        /\ workbook' = r.workbook
                        /\ csv_files' = r.csv_files
                  /\ UNCHANGED <<multithread, fetched>>
             ELSE /\ pc' = "except"
                  /\ NoRun
                  /\ UNCHANGED exportVars
    /\ events' = <<>>
    /\ UNCHANGED <<reports, today, backupDir, tempDir, exc, start_date, _files, metadata, bk_i, bk_hook, bk_caller, uncommitted,
                   stored_today, expect_skip>>
    /\ UNCHANGED connVars
    /\ UNCHANGED graphVars
    /\ UNCHANGED threadVars
    /\ UNCHANGED dataVars
    /\ UNCHANGED configVars
    /\ UNCHANGED getDataVars

\* book._sheets holds an entry that is no sheet: the writer cannot save it.
SaveRaises(book, query_list) == NoSheet \in Range(SheetOrder(book, query_list))

\* Every row is exported: the sheets are put in order when the workbook has
\* more than one (a failing save is swallowed as an AttributeError and the
\* file keeps what the last export saved), the backup directory is purged
\* with _delete_data_backup() and run() returns.
RunSucceeds ==
    /\ pc = "dispatch"
    /\ exported = Len(metadata)
    /\ workbook' = IF Len(workbook) > 1 /\ ~SaveRaises(workbook, metadata)
                   THEN SheetOrder(workbook, metadata)
                   ELSE workbook
    /\ LET d == DeleteDataBackup(backupDir, "_delete_excel_files") IN
        /\ backupDir' = d.dir
        /\ uncommitted' = uncommitted \cap DOMAIN d.dir
        /\ events' = <<<<"cleanup">>>> \o d.events
    /\ pc' = "idle"
    /\ NoRun
    /\ stored_today' = {}
    /\ expect_skip' = {}
    /\ UNCHANGED <<reports, today, tempDir, exc, start_date, _files, metadata,
                   bk_i, bk_hook, bk_caller, csv_files>>
    /\ UNCHANGED connVars
    /\ UNCHANGED graphVars
    /\ UNCHANGED threadVars
    /\ UNCHANGED dataVars
    /\ UNCHANGED configVars
    /\ UNCHANGED getDataVars

\* The save of the reordered workbook raises something other than
\* IndexError or AttributeError: the exception reaches run()'s handler.
ReorderFails ==
    /\ pc = "dispatch"
    /\ exported = Len(metadata)
    /\ Len(workbook) > 1
    /\ SaveRaises(workbook, metadata)
    /\ pc' = "except"
    /\ NoRun
    /\ events' = <<>>
    /\ UNCHANGED <<reports, today, backupDir, tempDir, exc, start_date, _files,
                   metadata, bk_i, bk_hook, bk_caller, uncommitted,
                   stored_today, expect_skip>>
    /\ UNCHANGED connVars
    /\ UNCHANGED graphVars
    /\ UNCHANGED threadVars
    /\ UNCHANGED dataVars
    /\ UNCHANGED configVars
    /\ UNCHANGED getDataVars
    /\ UNCHANGED exportVars

\* except Exception: log(..., 'CRITICAL'); self.backup_data()
RunExcept ==
    /\ pc = "except"
    /\ BackupBegin("_backup_metadata", "run")
    /\ events' = << <<"log", "CRITICAL">> >>
    /\ UNCHANGED <<reports, today, backupDir, tempDir, exc, start_date, _files, metadata, multithread, fetched, exported, uncommitted,
                   stored_today, expect_skip>>
    /\ UNCHANGED connVars
    /\ UNCHANGED graphVars
    /\ UNCHANGED threadVars
    /\ UNCHANGED dataVars
    /\ UNCHANGED configVars
    /\ UNCHANGED getDataVars
    /\ UNCHANGED exportVars

\* input("PRESS ENTER KEY TO QUIT") returns and run() returns None.
Acknowledge ==
    /\ pc = "prompt"
    /\ pc' = "idle"
    /\ events' = <<>>
    /\ UNCHANGED <<reports, today, backupDir, tempDir, exc, start_date, _files, metadata, multithread, fetched, exported, bk_i, bk_hook,
                   bk_caller, uncommitted, stored_today, expect_skip>>
    /\ UNCHANGED connVars
    /\ UNCHANGED graphVars
    /\ UNCHANGED threadVars
    /\ UNCHANGED dataVars
    /\ UNCHANGED configVars
    /\ UNCHANGED getDataVars
    /\ UNCHANGED exportVars

\* --------------------------------------------------------- get_connection
\* The report's own variables, which get_connection leaves alone.
objectVars == <<today, backupDir, tempDir, pc, exc, start_date, _files,
                metadata, multithread, fetched, exported, bk_i, bk_hook,
                bk_caller, reports, uncommitted, stored_today, expect_skip,
                workbook, csv_files,
                gd,
                config_files, export_to>>

\* "Cap login attempts at 5": if i > 5
MaxLoginAttempts == 5

\* Connection strings are sequences of tokens; "DSN" is a token.
DsnToken == <<"DSN">>
ConnectionStrings == {<<"DSN", "=db">>, <<"DRIVER=x;", "DSN", "=db">>}
Credentials == {<<"u1", "p1">>, <<"u2", "p2">>}
SourceNames == {"db1", "db2"}

NoCall == [pc |-> "idle", name |-> "", string |-> <<>>, i |-> 0]

\* 'DSN' + connection_string.split('DSN')[-1]
StripCredentials(string) == DsnToken \o Last(Split(string, DsnToken))

\* connection_string + ';UID=' + user_id + ';PWD=' + password
EmbedCredentials(string, c) == string \o <<";UID=", c[1], ";PWD=", c[2]>>

\* Variant: a registry that never finds a source connected.
NeverConnected(dict, name) == FALSE

\* database_name in self.connection_dictionary.keys()
Connected(dict, name) == name \in DOMAIN dict

\* The object pyodbc.connect(connection_string) returns.
HandleOf(name, string) == <<"conn", name, string>>

\* get_connection(database_name, connection_string) is called: i = 0.
\* The first event keeps the call's name and the registry at entry.
GetConnectionCall(name, string) ==
    /\ pc = "idle"
    /\ cn.pc = "idle"
    /\ cn' = [pc |-> "loop", name |-> name, string |-> string, i |-> 0]
    /\ events' = <<<<"get_connection", name, connection_dictionary>>>>
    /\ UNCHANGED <<objectVars, connection_dictionary>>
    /\ UNCHANGED graphVars
    /\ UNCHANGED threadVars
    /\ UNCHANGED dataVars

\* The while loop ends: the name is in the dictionary, whose entry is
\* returned.
ConnectionReturn ==
    /\ cn.pc = "loop"
    /\ Connected(connection_dictionary, cn.name)
    /\ events' = Append(events, <<"return", connection_dictionary[cn.name]>>)
    /\ cn' = NoCall
    /\ UNCHANGED <<objectVars, connection_dictionary>>
    /\ UNCHANGED graphVars
    /\ UNCHANGED threadVars
    /\ UNCHANGED dataVars

\* pyodbc.connect succeeds: the handle is stored under the name.
ConnectOk ==
    /\ cn.pc = "loop"
    /\ ~Connected(connection_dictionary, cn.name)
    /\ connection_dictionary' =
           Put(connection_dictionary, cn.name, HandleOf(cn.name, cn.string))
    /\ events' = Append(events, <<"connect", cn.string, "ok">>)
    /\ UNCHANGED <<objectVars, cn>>
    /\ UNCHANGED graphVars
    /\ UNCHANGED threadVars
    /\ UNCHANGED dataVars

\* The connection attempt raises.  A pyodbc.Error counts the attempt,
\* strips the string and, unless i > 5, prompts for UID/PWD and embeds
\* them for the retry; past the cap the stripped string is logged and
\* DBConnectionError is raised.  Any other exception leaves the call.
ConnectFail(kind, cred) ==
    /\ cn.pc = "loop"
    /\ ~Connected(connection_dictionary, cn.name)
    /\ LET attempt == <<"connect", cn.string, "failed">>
           stripped == StripCredentials(cn.string)
       IN
        IF kind # "pyodbc.Error"
        THEN /\ events' = events \o <<attempt, <<"raise", kind>>>>
             /\ cn' = NoCall
        ELSE IF cn.i + 1 > MaxLoginAttempts
        THEN /\ events' = events \o <<attempt, <<"log", stripped>>,
                                       <<"raise", "DBConnectionError">>>>
             /\ cn' = NoCall
        ELSE /\ events' = events \o <<attempt, <<"prompt", cred>>>>
             /\ cn' = [cn EXCEPT !.i = cn.i + 1,
                                 !.string = EmbedCredentials(stripped, cred)]
    /\ UNCHANGED <<objectVars, connection_dictionary>>
    /\ UNCHANGED graphVars
    /\ UNCHANGED threadVars
    /\ UNCHANGED dataVars

\* ---------------------------------- get_connection on worker threads
\* The get_data tasks of a multithreaded run() call get_connection on the
\* threads of the scheduler; nothing guards connection_dictionary, so the
\* test of the while loop, the connection attempt and the store into the
\* dictionary are separate steps of each thread.
otherVars == <<objectVars, cn, events, data_objects, graph>>

\* The object a connection attempt of thread t returns.
ThreadHandle(name, string, t) == <<"conn", name, string, t>>

\* A get_data task enters get_connection(database_name, connection_string).
ThreadCall(t, name, string) ==
    /\ threads[t].pc = "idle"
    /\ threads' = [threads EXCEPT ![t] =
                      [pc |-> "test", name |-> name, string |-> string,
                       i |-> 0, handle |-> <<>>]]
    /\ UNCHANGED <<otherVars, connection_dictionary>>

\* while database_name not in self.connection_dictionary.keys():
\* the loop is entered, or left with the entry of the dictionary.
ThreadTest(t) ==
    /\ threads[t].pc = "test"
    /\ threads' = [threads EXCEPT ![t] =
                      IF Connected(connection_dictionary, threads[t].name)
                      THEN NoThreadCall
                      ELSE [@ EXCEPT !.pc = "connect"]]
    /\ UNCHANGED <<otherVars, connection_dictionary>>

\* connection_object = pyodbc.connect(connection_string): a connection is
\* opened.
ThreadConnectOk(t) ==
    /\ threads[t].pc = "connect"
    /\ threads' = [threads EXCEPT
                      ![t].pc = "store",
                      ![t].handle = ThreadHandle(threads[t].name,
                                                 threads[t].string, t)]
    /\ UNCHANGED <<otherVars, connection_dictionary>>

\* The attempt raises: as in ConnectFail, the attempt is counted and the
\* operator prompted, or the call is left by the exception.
ThreadConnectFail(t, kind, cred) ==
    /\ threads[t].pc = "connect"
    /\ threads' = [threads EXCEPT ![t] =
                      IF kind # "pyodbc.Error"
                             \/ threads[t].i + 1 > MaxLoginAttempts
                      THEN NoThreadCall
                      ELSE [@ EXCEPT
                              !.pc = "test",
                              !.i = @ + 1,
                              !.string = EmbedCredentials(
                                  StripCredentials(threads[t].string), cred)]]
    /\ UNCHANGED <<otherVars, connection_dictionary>>

\* self.connection_dictionary[database_name] = connection_object
ThreadStore(t) ==
    /\ threads[t].pc = "store"
    /\ connection_dictionary' =
           Put(connection_dictionary, threads[t].name, threads[t].handle)
    /\ threads' = [threads EXCEPT ![t].pc = "test", ![t].handle = <<>>]
    /\ UNCHANGED otherVars

\* ------------------------------------------- the task graph of run()
\* _process_queries builds one get_data task and one export_data task for
\* every row of the metadata and computes the last export.
GetTask(k) == <<"get_data", k>>
ExportTask(k) == <<"export_data", k>>
Tasks(n) == {GetTask(k) : k \in 1..n} \cup {ExportTask(k) : k \in 1..n}

\* The tasks a task takes its arguments from: export_data of row k takes
\* the data of row k and the export list, which is the export of row k - 1
\* (the list passed to _process_queries for the first row).
Dependencies(t) ==
    IF t[1] = "export_data"
    THEN {GetTask(t[2])} \cup (IF t[2] > 1 THEN {ExportTask(t[2] - 1)} ELSE {})
    ELSE {}

\* What the computation of the graph leaves alone.
runVars == <<objectVars, connVars, events, threads, data_objects>>

Running(g) == {t \in DOMAIN g.state : g.state[t] = "running"}

\* export_locations.compute(), threaded or single-threaded as run() was
\* called.
Compute ==
    /\ pc = "dispatch"
    /\ graph = NoGraph
    /\ Len(metadata) > 0
    /\ graph' = [scheduler |-> IF multithread THEN "threads" ELSE "single",
                 state |-> [t \in Tasks(Len(metadata)) |-> "waiting"],
                 lingering |-> {}]
    /\ UNCHANGED runVars

\* The scheduler starts a task whose dependencies are computed; the
\* single-threaded scheduler runs one task at a time.
TaskStart(t) ==
    /\ graph.scheduler \in {"threads", "single"}
    /\ t \in DOMAIN graph.state
    /\ graph.state[t] = "waiting"
    /\ \A d \in Dependencies(t) : graph.state[d] = "done"
    /\ graph.scheduler = "single" => Running(graph) = {}
    /\ graph' = [graph EXCEPT !.state[t] = "running"]
    /\ UNCHANGED runVars

\* A task returns.
TaskFinish(t) ==
    /\ graph.scheduler \in {"threads", "single"}
    /\ t \in DOMAIN graph.state
    /\ graph.state[t] = "running"
    /\ graph' = [graph EXCEPT !.state[t] = "done"]
    /\ UNCHANGED runVars

\* A task raises and compute() raises in the calling thread.  The threaded
\* scheduler does not wait for the tasks that are running on its pool:
\* they run on to their end.  A DatabaseError of the threaded computation
\* is caught and the graph computed again with the single-threaded
\* scheduler; every other exception leaves _process_queries.
TaskRaises(t, kind) ==
    /\ graph.scheduler \in {"threads", "single"}
    /\ t \in DOMAIN graph.state
    /\ graph.state[t] = "running"
    /\ kind = "DatabaseError" => t[1] = "get_data"
    /\ graph' =
          [scheduler |-> IF graph.scheduler = "threads"
                            /\ kind = "DatabaseError"
                         THEN "single" ELSE "raised",
           state |-> [u \in DOMAIN graph.state |-> "waiting"],
           lingering |-> graph.lingering \cup (Running(graph) \ {t})]
    /\ UNCHANGED runVars

\* A task the threaded computation left running comes to its end.
LingeringFinish(t) ==
    /\ t \in graph.lingering
    /\ graph' = [graph EXCEPT !.lingering = @ \ {t}]
    /\ UNCHANGED runVars

\* compute() returns the export list.
ComputeReturns ==
    /\ graph.scheduler \in {"threads", "single"}
    /\ \A t \in DOMAIN graph.state : graph.state[t] = "done"
    /\ graph' = [graph EXCEPT !.scheduler = "returned"]
    /\ UNCHANGED runVars

\* ---------------------------------------------- ReportTemplate.get_data
\* connection_object=None, a connection of the caller's, and the NaN that
\* pandas puts in a column a row has no value for.
NoConnection == <<"None">>
CallerConnection == <<"conn", "caller">>
NotANumber == <<"NaN">>
Connections == {NoConnection, CallerConnection}

\* db_type: '' (the default), a source of the configuration, an unknown one.
DbTypes == {"", "db1", "db9"}

\* The keys and the values of self.config['DB'].
ConfigDb == SourceNames
ConfigString(db_type) == <<"DSN", "=db">>

\* What pd.read_sql can run a query on.
Usable(conn) == conn \notin {NoConnection, NotANumber}

\* get_data(data_name, sql, db_type, connection_object), after the events
\* head of its caller. An unknown db_type raises first; a backup file is
\* read instead of the database; without a connection object
\* get_connection(db_type, config['DB'][db_type]) is entered; otherwise
\* the query runs on the object, which fails on what is no connection.
GetData(head, name, db_type, conn, prefix) ==
    /\ pc = "idle"
    /\ gd.pc = "idle"
    /\ cn.pc = "idle"
    /\ LET call == head \o <<<<"get_data", name, db_type, conn>>>> IN
        IF db_type \notin ConfigDb
        THEN /\ events' = call \o <<<<"raise", "UnexpectedDbType">>>>
             /\ UNCHANGED <<tempDir, _files, gd, cn>>
        ELSE IF HasBackup(name)
        THEN /\ Len(_files) < MaxFiles
             /\ GetTempFile(name, backupDir[BackupFileName(name)], prefix)
             /\ events' = call \o <<<<"read_backup", name>>,
                                    <<"return", conn>>>>
             /\ UNCHANGED <<gd, cn>>
        ELSE IF conn = NoConnection
        THEN /\ gd' = [pc |-> "connecting", name |-> name,
                       db_type |-> db_type]
             /\ cn' = [pc |-> "loop", name |-> db_type,
                       string |-> ConfigString(db_type), i |-> 0]
             /\ events' = call \o <<<<"get_connection", db_type,
                                      connection_dictionary>>>>
             /\ UNCHANGED <<tempDir, _files>>
        ELSE IF Usable(conn)
        THEN /\ Len(_files) < MaxFiles
             /\ GetTempFile(name, Rows(name), prefix)
             /\ events' = call \o <<<<"query", name, conn>>,
                                    <<"return", conn>>>>
             /\ UNCHANGED <<gd, cn>>
        ELSE /\ events' = call \o <<<<"query", name, conn>>,
                                    <<"raise", "AttributeError">>>>
             /\ UNCHANGED <<tempDir, _files, gd, cn>>
    /\ UNCHANGED <<today, backupDir, pc, exc, start_date, metadata,
                   multithread, fetched, exported, bk_i, bk_hook, bk_caller,
                   reports, uncommitted, stored_today, expect_skip,
                   connection_dictionary>>
    /\ UNCHANGED exportVars
    /\ UNCHANGED configVars
    /\ UNCHANGED dataVars
    /\ UNCHANGED threadVars
    /\ UNCHANGED graphVars

\* A call of get_data on the constructed report.
GetDataCall(name, db_type, conn, prefix) ==
    GetData(<<>>, name, db_type, conn, prefix)

\* add_query appends a row with the columns query_name, sql, db_type,
\* connection, db_location to a frame whose columns are query_name, sql,
\* db_type, connection_object, db_location: the row has no value in
\* connection_object.
AddQueryRow(name, db_type, connection) ==
    [query_name |-> name, db_type |-> db_type, connection |-> connection,
     connection_object |-> NotANumber]

\* _process_queries: get_data(str(row['query_name']), str(row['sql']),
\* str(row['db_type']), row['connection_object'], ...)
DispatchArguments(row) ==
    [data_name |-> row.query_name, db_type |-> row.db_type,
     connection_object |-> row.connection_object]

\* The get_data task run() schedules for a row add_query has written.
DispatchAddedQuery(name, db_type, connection, prefix) ==
    LET a == DispatchArguments(AddQueryRow(name, db_type, connection)) IN
    GetData(<<<<"add_query", name, db_type, connection>>>>,
            a.data_name, a.db_type, a.connection_object, prefix)

\* get_connection has returned or raised: get_data queries the database
\* on the connection it got, or is left by the exception.
GetDataResume(prefix) ==
    /\ gd.pc = "connecting"
    /\ cn.pc = "idle"
    /\ IF Last(events)[1] = "return"
       THEN /\ Len(_files) < MaxFiles
            /\ GetTempFile(gd.name, Rows(gd.name), prefix)
            /\ events' = events \o <<<<"query", gd.name, Last(events)[2]>>,
                                     <<"return", Last(events)[2]>>>>
       ELSE /\ events' = events
            /\ UNCHANGED <<tempDir, _files>>
    /\ gd' = NoGetData
    /\ UNCHANGED <<today, backupDir, pc, exc, start_date, metadata,
                   multithread, fetched, exported, bk_i, bk_hook, bk_caller,
                   reports, uncommitted, stored_today, expect_skip>>
    /\ UNCHANGED connVars
    /\ UNCHANGED graphVars
    /\ UNCHANGED threadVars
    /\ UNCHANGED dataVars
    /\ UNCHANGED configVars
    /\ UNCHANGED exportVars

\* -------------------------------------------------------------- Data
\* Everything but the Data objects.
reportVars == <<objectVars, connVars, events, threads, graph>>

\* def _get_data_2() -> None: the parameters of the done-callback
CallbackParameters == 0

\* Future.add_done_callback(fn) calls fn with the future as its argument.
CallbackArguments == 1

\* Variant: a call that binds any number of arguments.
InvokeAnyway(parameters, arguments) == "ran"

\* Calling a function of so many parameters with so many arguments.
Invoke(parameters, arguments) ==
    IF parameters = arguments THEN "ran" ELSE "TypeError"

\* Data(dataset_name, log, client, ..., sql, connection): no data yet.
DataConstruct(n, connection, backup) ==
    /\ data_objects[n].state = "none"
    /\ data_objects' = [data_objects EXCEPT ![n] =
                   [state |-> "constructed", connection |-> connection,
                    backup |-> backup, _DataFrame |-> "None",
                    task |-> "none", callback |-> "none", calls |-> 0]]
    /\ UNCHANGED reportVars

\* How often _get_data is called on one Data object.
MaxCalls == 2

\* Data._get_data(): waits for a previous future, submits _get_data_1,
\* registers _get_data_2 as done-callback: _DataFrame is the new future.
DataGetData(n) ==
    /\ data_objects[n].state = "constructed"
    /\ data_objects[n].calls < MaxCalls
    /\ data_objects[n]._DataFrame = "Future" => data_objects[n].task \in {"finished", "error"}
    /\ data_objects' = [data_objects EXCEPT ![n]._DataFrame = "Future",
                            ![n].task = "pending",
                            ![n].callback = "registered",
                            ![n].calls = @ + 1]
    /\ UNCHANGED reportVars

\* A worker runs _get_data_1: pd.read_sql(sql, connection), or
\* pd.read_parquet of the backup folder when <name>.gz is in it.
TaskRuns(n, ok) ==
    /\ data_objects[n].task = "pending"
    /\ data_objects[n].backup \/ (ok <=> data_objects[n].connection = "working")
    /\ data_objects' = [data_objects EXCEPT ![n].task = IF ok THEN "finished" ELSE "error"]
    /\ UNCHANGED reportVars

\* The future is done: the client calls the done-callback with it.  The
\* body of _get_data_2 stores self._DataFrame.result(), which raises the
\* task's exception when the task failed.
DoneCallback(n) ==
    /\ data_objects[n].task \in {"finished", "error"}
    /\ data_objects[n].callback = "registered"
    /\ LET call == Invoke(CallbackParameters, CallbackArguments) IN
        data_objects' = [data_objects EXCEPT
                   ![n].callback = IF call = "ran" /\ data_objects[n].task = "finished"
                                   THEN "done" ELSE "raised",
                   ![n]._DataFrame = IF call = "ran" /\ data_objects[n].task = "finished"
                                     THEN "DataFrame" ELSE @]
    /\ UNCHANGED reportVars

\* ------------------------------------------- ReportTemplate.export_data
\* How far around Excel's limits the dataset shapes are drawn.
ExportMargin == 1
RowCounts == (MaxExcelRows - ExportMargin)..(MaxExcelRows + ExportMargin)
ColCounts == (MaxExcelCols - ExportMargin)..(MaxExcelCols + ExportMargin)
SheetNames == {QueryNameSeq[1], QueryNameSeq[2]}

\* export_data(file, report_location, sheet) called on an idle report with
\* a dataset of rows x cols and no writer of the caller's.
ExportDataCall(rows, cols, sheet) ==
    /\ pc = "idle"
    /\ LET r == BaseExportData(workbook, csv_files, export_to, sheet,
                               rows, cols) IN
        /\ workbook' = r.workbook
        /\ csv_files' = r.csv_files
        /\ events' = <<<<"export_data", sheet, rows, cols>>,
                       <<"return", r.location>>>>
    /\ UNCHANGED <<today, backupDir, tempDir, pc, exc, start_date, _files,
                   metadata, multithread, fetched, exported, bk_i, bk_hook,
                   bk_caller, reports, uncommitted, stored_today,
                   expect_skip>>
    /\ UNCHANGED connVars
    /\ UNCHANGED graphVars
    /\ UNCHANGED threadVars
    /\ UNCHANGED dataVars
    /\ UNCHANGED configVars
    /\ UNCHANGED getDataVars

\* ------------------------------------------------------------------- Next
\* The steps of backup_data.
BackupSteps ==
    \/ BackupSkip
    \/ BackupCopyOk
    \/ \E kind \in {"AttributeError", "OSError"} : BackupCopyFail(kind)
    \/ \E ok \in BOOLEAN : BackupHook(ok)
    \/ BackupNoHook
    \/ BackupMarker

\* Report objects come and go, up to MaxReports of them; the temp-file
\* allocator draws prefixes without an underscore.
Next ==
    \/ DayTick /\ UNCHANGED reports
    \/ \E md \in QueryLists :
          reports < MaxReports /\ reports' = reports + 1 /\ Construct(md)
    \/ \E h \in {NoHook, "_delete_excel_files"} : DeleteDataBackupCall(h)
    \/ Reset
    \/ \E h \in ResumeHooks : AttemptResumeCall(h[1], h[2])
    \/ \E i \in 1..MaxFiles : CloseTempFile(i)
    \/ Terminate
    \/ \E h \in {NoHook, "_backup_metadata"} : BackupDataCall(h)
    \/ BackupSteps
    \/ \E mt \in BOOLEAN : Run(mt)
    \/ \E k \in 1..MaxQueries, p \in PlainPrefixes : GetDataQuery(k, p)
    \/ \E k \in 1..MaxQueries, p \in PlainPrefixes : GetDataBackup(k, p)
    \/ \E k \in 1..MaxQueries, kind \in {"DatabaseError", "OtherError"} :
          GetDataFail(k, kind)
    \/ \E k \in 1..MaxQueries, ok \in BOOLEAN : ExportData(k, ok)
    \/ RunSucceeds
    \/ ReorderFails
    \/ RunExcept
    \/ Acknowledge

Spec == Init /\ [][Next]_vars

\* One report object, from its construction to the end of its process:
\* its runs, their failures and every step of backup_data.
NextBackup ==
    \/ \E md \in QueryLists :
          reports = 0 /\ reports' = reports + 1 /\ Construct(md)
    \/ \E i \in 1..MaxFiles : CloseTempFile(i)
    \/ Terminate
    \/ \E h \in {NoHook, "_backup_metadata"} : BackupDataCall(h)
    \/ BackupSteps
    \/ \E mt \in BOOLEAN : Run(mt)
    \/ \E k \in 1..MaxQueries, p \in Prefixes : GetDataQuery(k, p)
    \/ \E k \in 1..MaxQueries, kind \in {"DatabaseError", "OtherError"} :
          GetDataFail(k, kind)
    \/ \E k \in 1..MaxQueries, ok \in BOOLEAN : ExportData(k, ok)
    \/ ReorderFails
    \/ RunExcept
    \/ Acknowledge

SpecBackup == Init /\ [][NextBackup]_vars

\* Reports that start on a backup directory earlier runs left behind, and
\* everything that resumes from it or purges it: construction, the serial
\* run that succeeds, delete_data_backup and reset.
NextLeftBehind ==
    \/ DayTick /\ UNCHANGED reports
    \/ \E md \in QueryLists : Construct(md) /\ UNCHANGED reports
    \/ \E h \in {NoHook, "_delete_excel_files"} : DeleteDataBackupCall(h)
    \/ Reset
    \/ Terminate
    \/ Run(FALSE)
    \/ \E k \in 1..MaxQueries, p \in PlainPrefixes : GetDataQuery(k, p)
    \/ \E k \in 1..MaxQueries, p \in PlainPrefixes : GetDataBackup(k, p)
    \/ \E k \in 1..MaxQueries : ExportData(k, TRUE)
    \/ RunSucceeds

SpecLeftBehind == InitLeftBehind /\ [][NextLeftBehind]_vars

\* ------------------------------------------------------------- properties
\* A file of the given kind: its name ends in "." and the extension.
EndsWith(f, ext) == Len(f) >= 2 /\ f[Len(f) - 1] = "." /\ f[Len(f)] = ext
DatasetsIn(dir) == {f \in DOMAIN dir : EndsWith(f, "gz")}
HasMarker(dir) == MarkerName \in DOMAIN dir
FreshMarker(dir, day) == HasMarker(dir) /\ dir[MarkerName] = IsoFormat(day)
StaleMarker(dir, day) == HasMarker(dir) /\ dir[MarkerName] # IsoFormat(day)

\* Positions of the events of a kind in an event list.
EventsOf(ev, kinds) == {i \in 1..Len(ev) : ev[i][1] \in kinds}
LastEvent(ev) == ev[Len(ev)]
Appended(kind) ==
    /\ Len(events') = Len(events) + 1
    /\ SubSeq(events', 1, Len(events)) = events
    /\ LastEvent(events')[1] = kind

\* The step in which a report is constructed, attempt_resume included.
ConstructStep == pc = "none" /\ pc' = "idle"

\* C1: attempt_resume, called with the marker present and holding today's
\* date, returns exactly the names of the .gz files of the backup directory
\* (each once) and removes no file.
C1_ResumeReturnsAllDatasets ==
    [][(ConstructStep /\ FreshMarker(backupDir, today)) =>
        /\ events'[1][1] = "return"
        /\ Range(events'[1][2]) = DatasetsIn(backupDir)
        /\ Len(events'[1][2]) = Cardinality(DatasetsIn(backupDir))
        /\ backupDir' = backupDir]_vars

\* A report was constructed on a fresh backup of two datasets or more.
C1_Witness ==
    /\ pc = "idle"
    /\ Len(events) = 1
    /\ events[1][1] = "return"
    /\ Len(events[1][2]) >= 2
    /\ FreshMarker(backupDir, today)

\* C2: attempt_resume, called with the marker present and holding another
\* date than today's, returns the empty list and leaves neither a .gz file
\* nor the marker in the backup directory.
C2_StaleBackupIsPurged ==
    [][(ConstructStep /\ StaleMarker(backupDir, today)) =>
        /\ events'[1] = <<"return", <<>>>>
        /\ DatasetsIn(backupDir') = {}
        /\ ~HasMarker(backupDir')]_vars

\* A report was constructed on a stale backup: the marker and a dataset
\* were removed.
C2_Witness ==
    /\ pc = "idle"
    /\ Len(events) >= 3
    /\ events[1] = <<"return", <<>>>>
    /\ \E i \in EventsOf(events, {"remove"}) : events[i][2] = MarkerName
    /\ \E i \in EventsOf(events, {"remove"}) : EndsWith(events[i][2], "gz")
    /\ ~HasMarker(backupDir)

\* C3: once a run has failed after query q completed and backup_data has
\* stored q's dataset, a report constructed on the same calendar day never
\* sends q's SQL to the database.
C3_StoredQueryIsNotRerun ==
    \A i \in EventsOf(events, {"query"}) : events[i][2] \notin expect_skip

\* C4: when backup_data returns, every temp dataset that is still open and
\* whose copy did not fail is in the backup directory under the name
\* <query name>.gz, whatever prefix the allocator drew.
C4_BackupUnderQueryName ==
    [][(pc = "backup_marker" /\ pc' # pc) =>
        \A i \in 1..Len(_files) :
            (/\ IsFile(tempDir, _files[i].name)
             /\ \A j \in EventsOf(events, {"copy_failed"}) :
                    events[j][2] # _files[i].q)
            => /\ IsFile(backupDir', BackupFileName(_files[i].q))
               /\ backupDir'[BackupFileName(_files[i].q)]
                     = tempDir[_files[i].name]]_vars

\* C5: the marker backup_data writes holds the date of the day on which
\* backup_data runs, also for a report constructed on an earlier day.
C5_MarkerHoldsBackupDay ==
    [][(pc = "backup_marker" /\ pc' # pc) =>
        FreshMarker(backupDir', today)]_vars

\* C6: an exception raised in run() never leaves run(): the failed run is
\* at the operator prompt with the marker written, never raised to the
\* caller.
C6_FailedRunReachesPrompt ==
    /\ pc = "raised" => bk_caller # "run"
    /\ pc = "prompt" => HasMarker(backupDir)

\* The purges: the cleanup of a successful run, delete_data_backup, reset.
PurgeStep ==
    /\ pc \in {"dispatch", "idle"}
    /\ Len(events') > 0
    /\ events'[1][1] \in {"cleanup", "delete_data_backup", "reset"}
HookGiven(ev) == ev[1] # <<"delete_data_backup", NoHook>>

C8_FreshMarkerMeansCommitted ==
    (pc = "none" /\ FreshMarker(backupDir, today)) =>
        DatasetsIn(backupDir) \cap uncommitted = {}

\* C9: a copy that fails, with whatever exception, does not end
\* backup_data: the loop goes on to the next handle or to the hook.
C9_CopyFailureIsSwallowed ==
    [][(pc = "backup_copy" /\ Appended("copy_failed")) =>
        pc' = AfterCopy]_vars

\* The events of the copy loop, of the hook and of the marker.
CopyLoopEvents == {"copy", "copy_failed", "skip"}
HookEvents == {"hook", "hook_failed"}

NextQueries ==
    \/ DayTick /\ UNCHANGED reports
    \/ \E md \in QueryLists : Construct(md) /\ UNCHANGED reports
    \/ \E n \in QueryNames : AddQuery(n)
    \/ \E n \in QueryNames : RemoveQuery(n)
    \/ Reset
    \/ Terminate

SpecQueries == Init /\ [][NextQueries]_vars

\* C19: add_query with a name of the list changes nothing and logs a
\* warning; with a new name the list grows by exactly that name, last.
C19_AddQueryAppendsOnce ==
    [][(pc = "idle" /\ Len(events') = 2 /\ events'[1][1] = "add_query") =>
        LET name == events'[1][2] IN
        IF \E i \in 1..Len(metadata) : metadata[i] = name
        THEN metadata' = metadata /\ events'[2] = <<"log", "WARNING">>
        ELSE /\ Len(metadata') = Len(metadata) + 1
             /\ metadata'[Len(metadata')] = name
             /\ SubSeq(metadata', 1, Len(metadata)) = metadata]_vars

\* add_query was called with a name already in a list of two queries.
C19_Witness ==
    /\ pc = "idle"
    /\ Len(events) = 2
    /\ events[1][1] = "add_query"
    /\ events[2] = <<"log", "WARNING">>
    /\ Len(metadata) >= 2
    /\ \E i \in 1..Len(metadata) : metadata[i] = events[1][2]

\* The connection registry of one report: calls of get_connection with
\* every outcome of every connection attempt.
NextConnect ==
    \/ Construct(<<>>) /\ UNCHANGED reports
    \/ \E n \in SourceNames, str \in ConnectionStrings :
          GetConnectionCall(n, str)
    \/ ConnectionReturn
    \/ ConnectOk
    \/ \E kind \in {"pyodbc.Error", "sqlite3.Error"}, c \in Credentials :
          ConnectFail(kind, c)

SpecConnect == Init /\ [][NextConnect]_vars

\* The attempts of the call in progress, or of the last call.
Attempts(ev) == EventsOf(ev, {"connect"})
FailedAttempts(ev) == {i \in Attempts(ev) : ev[i][3] = "failed"}
Occurrences(string, token) == {i \in 1..Len(string) : string[i] = token}

\* C12: get_connection returns the memoized handle of a name that is in
\* the dictionary, without a connection attempt and without changing the
\* dictionary; otherwise, when it returns, the dictionary maps the name to
\* the handle returned and its other entries are as they were.
C12_ConnectionIsMemoized ==
    [][(cn.pc = "loop" /\ events' # events) =>
        LET name == events'[1][2]
            entry == events'[1][3]
        IN
        /\ Attempts(events') # {} => name \notin DOMAIN entry
        /\ LastEvent(events')[1] = "return" =>
             LET h == LastEvent(events')[2] IN
             IF name \in DOMAIN entry
             THEN h = entry[name] /\ connection_dictionary' = entry
             ELSE /\ DOMAIN connection_dictionary' = DOMAIN entry \cup {name}
                  /\ connection_dictionary'[name] = h
                  /\ \A n \in DOMAIN entry :
                        connection_dictionary'[n] = entry[n]]_vars

\* A call for a connected source returned its handle while another
\* source was connected too.
C12_Witness ==
    /\ cn.pc = "idle"
    /\ Len(events) = 2
    /\ events[1][1] = "get_connection"
    /\ events[1][2] \in DOMAIN events[1][3]
    /\ events[2] = <<"return", events[1][3][events[1][2]]>>
    /\ Cardinality(DOMAIN connection_dictionary) = 2

\* C13: get_connection gives up at the fifth failed attempt: once five
\* attempts of a call have failed the call has raised, with no further
\* prompt and no sixth attempt.
C13_FiveFailedAttemptsAreFinal ==
    Cardinality(FailedAttempts(events)) >= MaxLoginAttempts =>
        /\ Cardinality(Attempts(events)) = MaxLoginAttempts
        /\ LastEvent(events) = <<"raise", "DBConnectionError">>

\* C14: the connection string of a call never holds more than one
\* UID/PWD pair, and the string logged on permanent failure holds none.
C14_OneCredentialPairAtMost ==
    /\ Cardinality(Occurrences(cn.string, ";UID=")) <= 1
    /\ \A i \in Attempts(events) :
          Cardinality(Occurrences(events[i][2], ";UID=")) <= 1
    /\ \A i \in EventsOf(events, {"log"}) :
          LastEvent(events) = <<"raise", "DBConnectionError">> =>
              Occurrences(events[i][2], ";UID=") = {}

\* A state right after a call of attempt_resume with the given first hook.
ResumeCalled(ev) == Len(ev) >= 2 /\ ev[1][1] = "attempt_resume"

\* C11: attempt_resume called twice in succession on the same day, with
\* the same hooks and nothing in between, returns the same file list.
C11_ResumeTwiceSameList ==
    [][(ResumeCalled(events) /\ ResumeCalled(events')
        /\ events'[1] = events[1]) =>
        events'[2] = events[2]]_vars

\* C20: once SimpleReport.backup_data has written the Query Descriptor
\* list, a resume on the same day with the restore hook restores that
\* list and leaves every backed-up dataset in the backup directory.
C20_MetadataRoundTrip ==
    [][(/\ pc = "idle"
        /\ FreshMarker(backupDir, today)
        /\ IsFile(backupDir, MetadataBackupName)
        /\ ResumeCalled(events')
        /\ events'[1][2] = "_restore_metadata"
        /\ events' # events) =>
        /\ metadata' = backupDir[MetadataBackupName]
        /\ DatasetsIn(backupDir') = DatasetsIn(backupDir)]_vars

\* C15: run() on a report with no registered queries raises the
\* empty-report error before any work begins: when the error reaches the
\* handler no output file has been created, removed or opened and no query
\* has been dispatched.
C15_EmptyReportTouchesNothing ==
    (pc = "except" /\ Len(metadata) = 0) =>
        /\ EventsOf(events, {"remove_output", "create_output",
                             "open_output"}) = {}
        /\ fetched = {}

\* export_data alone, on one report object, with datasets whose shapes lie
\* on both sides of Excel's limits.
NextExport ==
    \/ reports = 0 /\ reports' = reports + 1 /\ Construct(<<>>)
    \/ \E rows \in RowCounts, cols \in ColCounts, sheet \in SheetNames :
          ExportDataCall(rows, cols, sheet)

SpecExport == Init /\ [][NextExport]_vars

ExportStep == Len(events') = 2 /\ events'[1][1] = "export_data"

RunReturns == pc = "dispatch" /\ pc' = "idle"

\* The queries whose datasets fit a sheet.
FitsSheet(name) == Shape(name).rows <= 1048576 /\ Shape(name).cols <= 16384

\* C17: at the end of every successful run() the workbook's sheet sequence
\* is exactly the sheets of the report's queries in query_list order, with
\* no placeholder sheet and no empty entry, also when some datasets were
\* diverted to CSV.
C17_SheetsInQueryOrder ==
    [][RunReturns => workbook' = SelectSeq(metadata, FitsSheet)]_vars

\* The step in which a failure of the run reaches run()'s handler.
RunFails == pc = "dispatch" /\ pc' = "except"

\* C18: run(multithread=True) and run(multithread=False) end alike for
\* every pattern of database outcomes. The serial run fails with the
\* datasets of an initial segment of the query list fetched, one more than
\* it has exported at most; these are the temp files its backup_data
\* stores, so a threaded run has to fail with the same ones.
C18_ThreadedFailsLikeSerial ==
    [][RunFails => fetched \subseteq 1..(exported + 1)]_vars

\* get_data called on one report object, with and without a backup file
\* of the dataset, and the get_connection calls it makes.
GetDataDirs ==
    {d \in LeftBehindDirs :
        DOMAIN d \subseteq {ForeignFile, BackupFileName(QueryNameSeq[1])}}

InitGetData ==
    /\ today = 0
    /\ backupDir \in GetDataDirs
    /\ NoReport
    /\ Installed

NextGetData ==
    \/ reports = 0 /\ reports' = reports + 1 /\ Construct(<<>>)
    \/ \E name \in SheetNames, db_type \in DbTypes, conn \in Connections,
          p \in PlainPrefixes : GetDataCall(name, db_type, conn, p)
    \/ \E name \in SheetNames, db_type \in DbTypes, conn \in Connections,
          p \in PlainPrefixes : DispatchAddedQuery(name, db_type, conn, p)
    \/ ConnectOk
    \/ \E kind \in {"pyodbc.Error", "sqlite3.Error"} :
          ConnectFail(kind, <<"u1", "p1">>)
    \/ ConnectionReturn
    \/ \E p \in PlainPrefixes : GetDataResume(p)

SpecGetData == InitGetData /\ [][NextGetData]_vars

\* C21: get_data needs either db_type or a connection object, not both:
\* the unexpected-source-type error is raised only by a call that has no
\* connection object, so that its source kind has to be looked up in the
\* configuration, and whose db_type is absent from it.
C21_ConnectionNeedsNoDbType ==
    \A i \in 1..Len(events) :
        (events[i][1] = "raise" /\ events[i][2] = "UnexpectedDbType") =>
            \E j \in 1..(i - 1) :
                /\ events[j][1] = "get_data"
                /\ events[j][4] = NoConnection
                /\ events[j][3] \notin ConfigDb

\* Installations a report is constructed on: an export path without and
\* with a dot in a directory name, each with files that may lie in its
\* folder (a CSV sidecar of the report, a file whose name starts with the
\* report's name, an unrelated file), an old report or none, and the
\* configuration file at the default or at the caller's location, or not.
ExportFolders ==
    {[export_to |-> ReportLocation,
      others |-> {<<"report", "_", "_", "b", ".", "csv">>,
                  <<"report", "_old", ".", "txt">>,
                  <<"notes", ".", "txt">>}],
     [export_to |-> <<"out", ".", "d/report", ".", "xlsx">>,
      others |-> {<<"out", ".", "d/report", "_", "_", "b", ".", "csv">>,
                  <<"out", ".", "d/notes", ".", "txt">>}]}

InitConfig ==
    /\ today = 0
    /\ backupDir = CleanDir
    /\ NoReport
    /\ config_files \in SUBSET {DefaultConfigLocation, CustomConfigLocation}
    /\ workbook \in {<<>>, <<QueryNameSeq[1]>>}
    /\ \E e \in ExportFolders :
          /\ export_to = e.export_to
          /\ csv_files \in SUBSET e.others

NextConfig ==
    \/ \E md \in QueryLists,
          location \in {DefaultConfigLocation, CustomConfigLocation} :
          reports < MaxReports /\ reports' = reports + 1
              /\ ConstructAt(md, location)
    \/ Reset
    \/ Terminate

SpecConfig == InitConfig /\ [][NextConfig]_vars

\* C22: constructing a report whose configuration file is missing fails
\* with a configuration error and produces no report object: a construction
\* that produces one found its file, and so creates none.
C22_MissingConfigIsFatal ==
    [][ConstructStep => config_files' = config_files]_vars

\* The report's own CSV sidecars: <report>__<query_name>.csv
Sidecars(location) ==
    {SubSeq(location, 1, Len(location) - 2) \o DunderSep \o q
        \o <<".", "csv">> : q \in QueryNames}

\* C23: the only files construction deletes from the export folder are the
\* file at the configured export path and this report's own CSV sidecars;
\* every other file of the folder is left unchanged, for every export path.
C23_InitRemovesOnlyOwnOutput ==
    [][ConstructStep => (csv_files \ csv_files') \subseteq Sidecars(export_to)]_vars

\* The Data objects alone.  The worker and the callback thread of the
\* client run what is submitted to them: both steps are weakly fair.
NextData ==
    \/ \E n \in DataNames, connection \in {"working", "broken"},
          backup \in BOOLEAN : DataConstruct(n, connection, backup)
    \/ \E n \in DataNames : DataGetData(n)
    \/ \E n \in DataNames, ok \in BOOLEAN : TaskRuns(n, ok)
    \/ \E n \in DataNames : DoneCallback(n)

SpecData ==
    /\ Init
    /\ [][NextData]_vars
    /\ WF_vars(\E n \in DataNames, ok \in BOOLEAN : TaskRuns(n, ok))
    /\ WF_vars(\E n \in DataNames : DoneCallback(n))

\* C24: after _get_data() is called with a working connection, the pending
\* future stored in _DataFrame is eventually replaced by the materialised
\* DataFrame, so a caller that waits for that terminates.
C24_FutureBecomesDataFrame ==
    \A n \in DataNames :
        (data_objects[n]._DataFrame = "Future" /\ data_objects[n].connection = "working"
            /\ ~data_objects[n].backup)
        ~> (data_objects[n]._DataFrame = "DataFrame")

\* The step in which get_data of a run reads <backup>/<name>.gz.
ReadsBackup ==
    pc = "dispatch" /\ Len(events') = 1 /\ events'[1][1] = "read_backup"

\* C25: get_data reads a dataset from the backup directory instead of
\* querying the database only when the marker file exists and holds
\* today's date; a .gz file without a fresh marker is never used as a
\* query result.
C25_BackupReadNeedsFreshMarker ==
    [][ReadsBackup => FreshMarker(backupDir, today)]_vars

\* The step that dispatches a row add_query wrote with a db_type of the
\* configuration and no connection.
DispatchesAdded ==
    /\ Len(events') >= 2
    /\ events'[1][1] = "add_query"
    /\ events'[1][3] \in ConfigDb
    /\ events'[1][4] = NoConnection

\* C26: a query registered through add_query with a db_type and no
\* connection is dispatched by run() with its connection field read as
\* absent, so that get_data resolves a connection through get_connection
\* (or reads the backup file) before executing the SQL.
C26_AddedQueryResolvesConnection ==
    [][DispatchesAdded =>
        /\ events'[2] = <<"get_data", events'[1][2], events'[1][3],
                          NoConnection>>
        /\ events'[3][1] \in {"get_connection", "read_backup"}]_vars

\* The get_connection calls of the worker threads of one run.
NextThreads ==
    \/ \E t \in Threads, name \in SourceNames :
          ThreadCall(t, name, ConfigString(name))
    \/ \E t \in Threads : ThreadTest(t)
    \/ \E t \in Threads : ThreadConnectOk(t)
    \/ \E t \in Threads, kind \in {"pyodbc.Error", "sqlite3.Error"} :
          ThreadConnectFail(t, kind, <<"u1", "p1">>)
    \/ \E t \in Threads : ThreadStore(t)

SpecThreads == Init /\ [][NextThreads]_vars

\* C27: during a multithreaded run(), for every source name at most one
\* connection is ever opened and stored: no second connection is opened
\* while one is open or stored, and no stored connection is overwritten.
C27_OneConnectionPerSource ==
    /\ \A t1, t2 \in Threads :
          (t1 # t2 /\ threads[t1].pc = "store" /\ threads[t2].pc = "store")
              => threads[t1].name # threads[t2].name
    /\ \A t \in Threads :
          threads[t].pc = "store"
              => ~Connected(connection_dictionary, threads[t].name)

\* C28: within one run() each query is executed at most once and each
\* dataset is written to at most one temporary file and exported at most
\* once, also when the threaded computation fails with a DatabaseError and
\* the run falls back to one thread: while the run is dispatching, a query
\* that was executed stays executed and an export that was made stays made.
C28_EachQueryRunsOnce ==
    [][(pc = "dispatch" /\ pc' = "dispatch")
          => (fetched \subseteq fetched' /\ exported <= exported')]_vars

\* The steps that may remove datasets: the purges (the cleanup of a
\* successful run, delete_data_backup, reset) and every step that finds a
\* marker of another day.
MayRemoveDatasets == PurgeStep \/ StaleMarker(backupDir, today)

NextGraph ==
    \/ \E md \in QueryLists :
          reports = 0 /\ reports' = reports + 1 /\ Construct(md)
    \/ \E mt \in BOOLEAN : Run(mt)
    \/ Compute
    \/ \E k \in 1..MaxQueries : TaskStart(GetTask(k))
    \/ \E k \in 1..MaxQueries : TaskStart(ExportTask(k))
    \/ \E k \in 1..MaxQueries : TaskFinish(GetTask(k))
    \/ \E k \in 1..MaxQueries : TaskFinish(ExportTask(k))
    \/ \E k \in 1..MaxQueries, kind \in {"DatabaseError", "OtherError"} :
          TaskRaises(GetTask(k), kind)
    \/ \E k \in 1..MaxQueries : TaskRaises(ExportTask(k), "OtherError")
    \/ \E k \in 1..MaxQueries : LingeringFinish(GetTask(k))
    \/ \E k \in 1..MaxQueries : LingeringFinish(ExportTask(k))
    \/ ComputeReturns

SpecGraph == Init /\ [][NextGraph]_vars

\* The exports that are at work: those of the computation in progress and
\* those an abandoned computation left running.
ExportsAtWork ==
    {t \in Running(graph) : t[1] = "export_data"}
    \cup {<<"lingering", t>> : t \in {u \in graph.lingering :
                                          u[1] = "export_data"}}

\* C30: in a multithreaded run() the export of the k-th query does not
\* start before the export of the (k-1)-th has finished, and the writer
\* and the sheet counter are never used by two exports at the same time.
C30_ExportsOneAtATime ==
    multithread =>
        /\ \A t \in DOMAIN graph.state :
              (t[1] = "export_data" /\ t[2] > 1
                   /\ graph.state[t] \in {"running", "done"})
                  => graph.state[ExportTask(t[2] - 1)] = "done"
        /\ Cardinality(ExportsAtWork) <= 1

====
